---- MODULE Spec2Model ----
(***************************************************************************)
(* A model of onlinejudge.dispatch (the handler registries and the         *)
(* *_from_url resolution functions) and of onlinejudge.service.topcoder    *)
(* (the Topcoder URL matchers and the sample extraction of                 *)
(* TopcoderArenaProblem._download_data).                                   *)
(*                                                                         *)
(* Strings that the code takes apart are sequences: a path or fragment is  *)
(* the list its split('/') gives ("/stat" is <<"", "stat">>, "/" is        *)
(* <<"", "">>, "" is <<"">>), a text of the document is the sequence of    *)
(* its characters.                                                         *)
(***************************************************************************)
EXTENDS Integers, Sequences, FiniteSets, TLC

VARIABLES
    services,       \* dispatch.services
    problems,       \* dispatch.problems
    submissions,    \* dispatch.submissions
    contests,       \* dispatch.contests
    initialized,    \* the import of onlinejudge.service.topcoder has run
    registered,     \* number of += statements run by other modules or callers
    last,           \* the latest resolution call: its arguments, result, trace
    doc,            \* the document _download_data parses
    pc,             \* position of _download_data
    cursor,         \* index of the sibling `cursor` points at (0: the heading row)
    definition,     \* the labels read into `definition`
    raw_sample_cases,
    blocks,         \* the example blocks accepted so far: the rows and nodes read
    result,         \* what download_sample_cases returned or raised
    others,         \* the locals of the calls of _download_data that are not running
    completed,      \* the calls of download_sample_cases that ended: document, result
    token,          \* the argument of _convert_to_greed
    greed,          \* what _convert_to_greed(token) returned
    url_arg,        \* the argument of the from_url matchers
    match           \* what the matchers and service_from_url gave for url_arg

registry == <<services, problems, submissions, contests>>
dispatchVars == <<services, problems, submissions, contests, initialized, registered, last>>
extractVars == <<doc, pc, cursor, definition, raw_sample_cases, blocks, result>>
callVars == <<others, completed>>
pureVars == <<token, greed, url_arg, match>>
vars == <<services, problems, submissions, contests, initialized, registered, last,
          doc, pc, cursor, definition, raw_sample_cases, blocks, result,
          others, completed, token, greed, url_arg, match>>

(***************************************************************************)
(* Bounds                                                                  *)
(***************************************************************************)
\* += statements run on the registries besides those of the topcoder module
MaxRegistered == 2
\* sibling nodes after the row of the Examples heading
MaxSiblings == 4

(***************************************************************************)
(* URLs, as urllib.parse.urlparse takes them apart                         *)
(***************************************************************************)
URL(s, n, p, q, f) ==
    [parse |-> "ok", scheme |-> s, netloc |-> n, path |-> p, query |-> q, fragment |-> f]

\* a string urlparse refuses, such as "http://[" (ValueError: Invalid IPv6 URL)
BadURL ==
    [parse |-> "ValueError", scheme |-> "", netloc |-> "", path |-> <<"">>,
     query |-> <<>>, fragment |-> <<"">>]

Schemes == {"", "http", "https", "ftp"}

RootPath == <<"", "">>
IndexPath == <<"", "index.html">>
StatPath == <<"", "stat">>
EmptyStr == <<"">>

PracticeFragment(r, c, p, d, m) == <<"", "u", "practiceCode", r, c, p, d, m>>
GoodFragment == PracticeFragment("14230", "10838", "10760", "1", "303803")

Fragments ==
    { GoodFragment,
      PracticeFragment("14230", "10838", "010760", "1", "303803"),
      PracticeFragment("14230", "10838", "x", "1", "303803"),
      PracticeFragment("14230", "10838", "10760", "1", "x"),
      <<"", "u", "practiceCode", "14230", "10838", "10760", "1">>,
      <<"", "u", "viewCode", "14230", "10838", "10760", "1", "303803">>,
      <<"", "u", ".", "practiceCode", "14230", "10838", "10760", "1", "303803", "">>,
      EmptyStr }

GoodQuery == << <<"c", "problem_statement">>, <<"pm", "10760">> >>

Queries ==
    { GoodQuery,
      << <<"pm", "10760">>, <<"c", "problem_statement">> >>,
      << <<"c", "problem_statement">>, <<"pm", "x">> >>,
      << <<"c", "problem_statement">>, <<"pm", "">> >>,
      << <<"c", "problem_statement">>, <<"pm", "10760">>, <<"pm", "10761">> >>,
      << <<"c", "round_overview">>, <<"pm", "10760">> >>,
      << <<"c", "problem_statement">> >>,
      <<>> }

SiteHosts == {"a.example", "b.example"}
SitePaths == {<<"", k, "1">> : k \in {"problem", "submission", "contest", "task"}}

URLs ==
    {BadURL}
    \cup {URL(s, "arena.topcoder.com", IndexPath, <<>>, GoodFragment) : s \in Schemes}
    \cup {URL("https", "arena.topcoder.com", p, <<>>, GoodFragment) :
            p \in {RootPath, EmptyStr, <<"", ".", "index.html", "">>, StatPath}}
    \cup {URL("https", "arena.topcoder.com", RootPath, <<>>, f) : f \in Fragments}
    \cup {URL(s, "community.topcoder.com", StatPath, GoodQuery, EmptyStr) : s \in Schemes}
    \cup {URL("http", "community.topcoder.com", StatPath, q, EmptyStr) : q \in Queries}
    \cup {URL("https", "community.topcoder.com", RootPath, GoodQuery, GoodFragment)}
    \cup {URL("https", n, p, <<>>, EmptyStr) : n \in SiteHosts, p \in SitePaths}

\* the URLs given to the resolution functions
DispatchURLs ==
    { BadURL,
      URL("https", "arena.topcoder.com", IndexPath, <<>>, GoodFragment),
      URL("https", "community.topcoder.com", StatPath, GoodQuery, EmptyStr),
      URL("https", "community.topcoder.com", RootPath, <<>>, EmptyStr),
      URL("ftp", "arena.topcoder.com", IndexPath, <<>>, GoodFragment) }
    \cup {URL("https", n, p, <<>>, EmptyStr) : n \in SiteHosts, p \in SitePaths}

(***************************************************************************)
(* Entities and the results of calls                                       *)
(***************************************************************************)
None == [kind |-> "None", cls |-> "", id |-> 0]
Entity(k, c, i) == [kind |-> k, cls |-> c, id |-> i]

Return(v) == [outcome |-> "return", value |-> v, exc |-> ""]
Raise(e) == [outcome |-> "raise", value |-> None, exc |-> e]

(***************************************************************************)
(* Helpers of the URL matchers                                             *)
(***************************************************************************)
\* utils.normpath on a path given as its split('/') list: empty and "."
\* components are dropped, ".." takes the component before it away
RECURSIVE NormComps(_, _, _)
NormComps(comps, abs, new) ==
    IF comps = <<>> THEN new
    ELSE LET comp == Head(comps)
             newlen == Len(new)
         IN  IF comp \in {"", "."} THEN NormComps(Tail(comps), abs, new)
             ELSE IF \/ comp # ".."
                     \/ (~abs /\ newlen = 0)
                     \/ (newlen > 0 /\ new[newlen] = "..")
                  THEN NormComps(Tail(comps), abs, Append(new, comp))
             ELSE IF newlen > 0
                  THEN NormComps(Tail(comps), abs, SubSeq(new, 1, newlen - 1))
             ELSE NormComps(Tail(comps), abs, new)

normpath(path) ==
    LET abs == Len(path) >= 2 /\ path[1] = ""
        new == NormComps(path, abs, <<>>)
    IN  IF abs THEN (IF new = <<>> THEN <<"", "">> ELSE <<"">> \o new)
        ELSE (IF new = <<>> THEN <<".">> ELSE new)

\* int(): the strings int() accepts, with their values
IntLiterals ==
    [s \in {"14230", "10838", "10760", "010760", "10761", "1", "303803", "0", "-5"} |->
        CASE s = "14230" -> 14230
          [] s = "0" -> 0
          [] s = "-5" -> -5
          [] s = "10838" -> 10838
          [] s = "10760" -> 10760
          [] s = "010760" -> 10760
          [] s = "10761" -> 10761
          [] s = "1" -> 1
          [] s = "303803" -> 303803]

int(s) ==
    IF s \in DOMAIN IntLiterals
    THEN [ok |-> TRUE, val |-> IntLiterals[s]]
    ELSE [ok |-> FALSE, val |-> 0]

\* urllib.parse.parse_qs(query).get(key, []): the values given for key, in
\* order; a pair with a blank value is dropped
RECURSIVE parse_qs(_, _)
parse_qs(query, key) ==
    IF query = <<>> THEN <<>>
    ELSE LET kv == Head(query)
             rest == parse_qs(Tail(query), key)
         IN  IF kv[1] = key /\ kv[2] # "" THEN <<kv[2]>> \o rest ELSE rest

(***************************************************************************)
(* onlinejudge.service.topcoder: the URL matchers                          *)
(***************************************************************************)
\* TopcoderArenaService.from_url with an allow-list that lacks the community host
TopcoderArenaService_from_url_arena_only(url) ==
    IF url.parse # "ok" THEN Raise(url.parse)
    ELSE IF /\ url.scheme \in {"", "http", "https"}
            /\ url.netloc \in {"arena.topcoder.com"}
         THEN Return(Entity("service", "TopcoderArenaService", 0))
    ELSE Return(None)

TopcoderArenaService_from_url(url) ==
    IF url.parse # "ok" THEN Raise(url.parse)
    ELSE IF /\ url.scheme \in {"", "http", "https"}
            /\ url.netloc \in {"arena.topcoder.com", "community.topcoder.com"}
         THEN Return(Entity("service", "TopcoderArenaService", 0))
    ELSE Return(None)

\* the arena branch of from_url taking the id from the segment before the
\* problem id (the component id)
TopcoderArenaProblem_from_fragment_component(url) ==
    LET dirs == normpath(url.fragment)
    IN  IF /\ url.netloc = "arena.topcoder.com"
           /\ normpath(url.path) \in {<<"", "">>, <<"", "index.html">>}
           /\ Len(dirs) = 8
           /\ dirs[1] = ""
           /\ dirs[2] = "u"
           /\ dirs[3] = "practiceCode"
           /\ \A i \in 4..8 : int(dirs[i]).ok
        THEN Entity("problem", "TopcoderArenaProblem", int(dirs[5]).val)
        ELSE None

TopcoderArenaProblem_from_fragment(url) ==
    LET dirs == normpath(url.fragment)
    IN  IF /\ url.netloc = "arena.topcoder.com"
           /\ normpath(url.path) \in {<<"", "">>, <<"", "index.html">>}
           /\ Len(dirs) = 8
           /\ dirs[1] = ""
           /\ dirs[2] = "u"
           /\ dirs[3] = "practiceCode"
           /\ \A i \in 4..8 : int(dirs[i]).ok
        THEN Entity("problem", "TopcoderArenaProblem", int(dirs[6]).val)
        ELSE None

TopcoderArenaProblem_from_query(url) ==
    LET c == parse_qs(url.query, "c")
        pm == parse_qs(url.query, "pm")
    IN  IF /\ url.netloc = "community.topcoder.com"
           /\ normpath(url.path) = <<"", "stat">>
           /\ c = <<"problem_statement">>
           /\ Len(pm) = 1
           /\ int(pm[1]).ok
        THEN Entity("problem", "TopcoderArenaProblem", int(pm[1]).val)
        ELSE None

TopcoderArenaProblem_from_url(url) ==
    IF url.parse # "ok" THEN Raise(url.parse)
    ELSE IF url.scheme \notin {"", "http", "https"} THEN Return(None)
    ELSE IF TopcoderArenaProblem_from_fragment(url) # None
         THEN Return(TopcoderArenaProblem_from_fragment(url))
    ELSE Return(TopcoderArenaProblem_from_query(url))

\* '{}'.format(n) of an integer n
format(n) == ToString(n)

\* TopcoderArenaProblem.get_url, TopcoderArenaService.get_url
get_url(entity) ==
    CASE entity.cls = "TopcoderArenaProblem" ->
            URL("https", "community.topcoder.com", StatPath,
                << <<"c", "problem_statement">>, <<"pm", format(entity.id)>> >>, EmptyStr)
      [] entity.cls = "TopcoderArenaService" ->
            URL("https", "arena.topcoder.com", RootPath, <<>>, EmptyStr)

\* TopcoderArenaService.get_name
get_name(entity) ==
    CASE entity.cls = "TopcoderArenaService" -> "Topcoder"

(***************************************************************************)
(* The handlers of other sites: matchers that decline every URL that is    *)
(* not of their host and path shape                                        *)
(***************************************************************************)
SiteHandlers ==
    [services |-> {"SiteAService"},
     problems |-> {"SiteAProblem", "SiteBProblem"},
     submissions |-> {"SiteASubmission", "SiteBSubmission"},
     contests |-> {"SiteAContest", "SiteBContest"}]

SitePattern(cls) ==
    CASE cls = "SiteAService" ->
            [kind |-> "service", hosts |-> {"a.example"},
             shapes |-> {"problem", "submission", "contest", "task"}]
      [] cls = "SiteAProblem" ->
            [kind |-> "problem", hosts |-> {"a.example"}, shapes |-> {"problem", "task"}]
      [] cls = "SiteBProblem" ->
            [kind |-> "problem", hosts |-> SiteHosts, shapes |-> {"problem", "task"}]
      [] cls = "SiteASubmission" ->
            [kind |-> "submission", hosts |-> {"a.example"}, shapes |-> {"submission", "task"}]
      [] cls = "SiteBSubmission" ->
            [kind |-> "submission", hosts |-> SiteHosts, shapes |-> {"submission"}]
      [] cls = "SiteAContest" ->
            [kind |-> "contest", hosts |-> {"a.example"}, shapes |-> {"contest"}]
      [] cls = "SiteBContest" ->
            [kind |-> "contest", hosts |-> SiteHosts, shapes |-> {"contest"}]

Site_from_url(cls, url) ==
    LET pat == SitePattern(cls)
        path == normpath(url.path)
    IN  IF /\ url.parse = "ok"
           /\ url.scheme \in {"", "http", "https"}
           /\ url.netloc \in pat.hosts
           /\ Len(path) = 3
           /\ path[2] \in pat.shapes
        THEN Return(Entity(pat.kind, cls, 1))
        ELSE Return(None)

\* cls.from_url(url)
from_url(cls, url) ==
    CASE cls = "TopcoderArenaService" -> TopcoderArenaService_from_url(url)
      [] cls = "TopcoderArenaProblem" -> TopcoderArenaProblem_from_url(url)
      [] OTHER -> Site_from_url(cls, url)

\* entity.get_service()
get_service(entity) ==
    CASE entity.cls = "TopcoderArenaProblem" -> Entity("service", "TopcoderArenaService", 0)
      [] entity.cls \in {"SiteAProblem", "SiteASubmission", "SiteAContest"} ->
            Entity("service", "SiteAService", 1)
      [] OTHER -> Entity("service", "SiteBService", 1)

(***************************************************************************)
(* onlinejudge.dispatch: the resolution functions.  Each gives the result  *)
(* (res), the handlers consulted in order (consulted, as <<list, index>>), *)
(* the reports given to the logger (log) and the list as the iteration     *)
(* leaves it (after).                                                      *)
(***************************************************************************)
\* for cls in lst: x = cls.from_url(url); if x is not None: return x
RECURSIVE for_cls_in(_, _, _, _)
for_cls_in(name, lst, url, i) ==
    IF i > Len(lst) THEN [res |-> Return(None), consulted |-> <<>>]
    ELSE LET r == from_url(lst[i], url)
         IN  IF r.outcome = "raise" \/ r.value # None
             THEN [res |-> r, consulted |-> << <<name, i>> >>]
             ELSE LET rest == for_cls_in(name, lst, url, i + 1)
                  IN  [res |-> rest.res, consulted |-> << <<name, i>> >> \o rest.consulted]

\* the body shared by submission_from_url, problem_from_url, contest_from_url
entity_from_url(name, what, lst, url) ==
    LET r == for_cls_in(name, lst, url, 1)
    IN  [res |-> r.res,
         consulted |-> r.consulted,
         log |-> IF r.res.outcome = "raise" THEN <<>>
                 ELSE IF r.res.value # None THEN << <<"info", what, "recognized">> >>
                 ELSE << <<"error", what, "unknown">> >>,
         after |-> lst]

submission_from_url(url, lst) == entity_from_url("submissions", "submission", lst, url)

\* problem_from_url with a loop that keeps the latest match instead of returning
\* the first one
problem_from_url_last_match(url, lst) ==
    LET first == entity_from_url("problems", "problem", lst, url)
        hits == {i \in 1..Len(lst) :
                    from_url(lst[i], url).outcome = "return" /\ from_url(lst[i], url).value # None}
        m == CHOOSE i \in hits : \A j \in hits : j <= i
    IN  IF first.res.outcome = "raise" \/ hits = {} THEN first
        ELSE [first EXCEPT !.res = from_url(lst[m], url),
                           !.consulted = [i \in 1..Len(lst) |-> <<"problems", i>>]]

\* problem_from_url with a loop that takes each handler off the list as it
\* consults it
problem_from_url_consuming(url, lst) ==
    LET r == entity_from_url("problems", "problem", lst, url)
    IN  [r EXCEPT !.after = SubSeq(lst, Len(r.consulted) + 1, Len(lst))]

problem_from_url(url, lst) == entity_from_url("problems", "problem", lst, url)

contest_from_url(url, lst) == entity_from_url("contests", "contest", lst, url)

\* service_from_url, given what its loop over services (s) and its calls of
\* submission_from_url and problem_from_url give when they are reached
service_from(s, submission, problem, svcs, subs, probs) ==
    IF s.res.outcome = "raise"
    THEN [res |-> s.res, consulted |-> s.consulted, log |-> <<>>,
          after |-> [services |-> svcs, submissions |-> subs, problems |-> probs]]
    ELSE IF s.res.value # None
    THEN [res |-> s.res, consulted |-> s.consulted,
          log |-> << <<"info", "service", "recognized">> >>,
          after |-> [services |-> svcs, submissions |-> subs, problems |-> probs]]
    ELSE IF submission.res.outcome = "raise"
    THEN [res |-> submission.res,
          consulted |-> s.consulted \o submission.consulted,
          log |-> submission.log,
          after |-> [services |-> svcs, submissions |-> submission.after, problems |-> probs]]
    ELSE IF submission.res.value # None
    THEN [res |-> Return(get_service(submission.res.value)),
          consulted |-> s.consulted \o submission.consulted,
          log |-> submission.log,
          after |-> [services |-> svcs, submissions |-> submission.after, problems |-> probs]]
    ELSE IF problem.res.outcome = "raise"
    THEN [res |-> problem.res,
          consulted |-> s.consulted \o submission.consulted \o problem.consulted,
          log |-> submission.log \o problem.log,
          after |-> [services |-> svcs, submissions |-> submission.after,
                     problems |-> problem.after]]
    ELSE IF problem.res.value # None
    THEN [res |-> Return(get_service(problem.res.value)),
          consulted |-> s.consulted \o submission.consulted \o problem.consulted,
          log |-> submission.log \o problem.log,
          after |-> [services |-> svcs, submissions |-> submission.after,
                     problems |-> problem.after]]
    ELSE [res |-> Return(None),
          consulted |-> s.consulted \o submission.consulted \o problem.consulted,
          log |-> submission.log \o problem.log \o << <<"error", "service", "unknown">> >>,
          after |-> [services |-> svcs, submissions |-> submission.after,
                     problems |-> problem.after]]

service_from_url(url, svcs, subs, probs) ==
    service_from(for_cls_in("services", svcs, url, 1), submission_from_url(url, subs),
                 problem_from_url(url, probs), svcs, subs, probs)

(***************************************************************************)
(* The dispatch state machine                                              *)
(***************************************************************************)
NoCall ==
    [fn |-> "", url |-> BadURL, outcome |-> "", value |-> None, exc |-> "",
     consulted |-> <<>>, log |-> <<>>]

Call(fn, url, r) ==
    [fn |-> fn, url |-> url, outcome |-> r.res.outcome, value |-> r.res.value,
     exc |-> r.res.exc, consulted |-> r.consulted, log |-> r.log]

\* the registration at the end of onlinejudge/service/topcoder.py
ImportTopcoder ==
    /\ ~initialized
    /\ services' = services \o <<"TopcoderArenaService">>
    /\ problems' = problems \o <<"TopcoderArenaProblem">>
    /\ initialized' = TRUE
    /\ UNCHANGED <<submissions, contests, registered, last>>
    /\ UNCHANGED extractVars
    /\ UNCHANGED <<callVars, pureVars>>

\* the same statement, `onlinejudge.dispatch.<list> += [cls]`, run by the
\* module of another site or by any caller: the lists are module globals
Register(name, cls) ==
    /\ registered < MaxRegistered
    /\ registered' = registered + 1
    /\ services' = IF name = "services" THEN services \o <<cls>> ELSE services
    /\ problems' = IF name = "problems" THEN problems \o <<cls>> ELSE problems
    /\ submissions' = IF name = "submissions" THEN submissions \o <<cls>> ELSE submissions
    /\ contests' = IF name = "contests" THEN contests \o <<cls>> ELSE contests
    /\ UNCHANGED <<initialized, last>>
    /\ UNCHANGED extractVars
    /\ UNCHANGED <<callVars, pureVars>>

CallSubmission(url) ==
    LET r == submission_from_url(url, submissions)
    IN  /\ last' = Call("submission_from_url", url, r)
        /\ submissions' = r.after
        /\ UNCHANGED <<services, problems, contests, initialized, registered>>
        /\ UNCHANGED extractVars
        /\ UNCHANGED <<callVars, pureVars>>

CallProblem(url) ==
    LET r == problem_from_url(url, problems)
    IN  /\ last' = Call("problem_from_url", url, r)
        /\ problems' = r.after
        /\ UNCHANGED <<services, submissions, contests, initialized, registered>>
        /\ UNCHANGED extractVars
        /\ UNCHANGED <<callVars, pureVars>>

CallContest(url) ==
    LET r == contest_from_url(url, contests)
    IN  /\ last' = Call("contest_from_url", url, r)
        /\ contests' = r.after
        /\ UNCHANGED <<services, problems, submissions, initialized, registered>>
        /\ UNCHANGED extractVars
        /\ UNCHANGED <<callVars, pureVars>>

CallService(url) ==
    LET r == service_from_url(url, services, submissions, problems)
    IN  /\ last' = Call("service_from_url", url, r)
        /\ services' = r.after.services
        /\ submissions' = r.after.submissions
        /\ problems' = r.after.problems
        /\ UNCHANGED <<contests, initialized, registered>>
        /\ UNCHANGED extractVars
        /\ UNCHANGED <<callVars, pureVars>>

(***************************************************************************)
(* Texts of the document, as sequences of characters                       *)
(***************************************************************************)
Marker == <<"R", "e", "t", "u", "r", "n", "s", ":", " ">>

Digits == <<"0", "1", "2", "3", "4", "5", "6", "7", "8", "9">>

\* str(n), '{}'.format(n) of an integer n >= 0
RECURSIVE Decimal(_)
Decimal(n) ==
    IF n < 10 THEN <<Digits[n + 1]>> ELSE Decimal(n \div 10) \o <<Digits[(n % 10) + 1]>>

startswith(x, prefix) ==
    Len(x) >= Len(prefix) /\ SubSeq(x, 1, Len(prefix)) = prefix

endswith(x, suffix) ==
    Len(x) >= Len(suffix) /\ SubSeq(x, Len(x) - Len(suffix) + 1, Len(x)) = suffix

\* x.split(sep) for a separator of one character
RECURSIVE split(_, _)
split(x, sep) ==
    IF \A i \in 1..Len(x) : x[i] # sep THEN <<x>>
    ELSE LET i == CHOOSE j \in 1..Len(x) : x[j] = sep /\ \A k \in 1..(j - 1) : x[k] # sep
         IN  <<SubSeq(x, 1, i - 1)>> \o split(SubSeq(x, i + 1, Len(x)), sep)

Whitespace == {" ", "\n", "\t"}

\* y.strip()
RECURSIVE strip(_)
strip(y) ==
    IF y = <<>> THEN y
    ELSE IF y[1] \in Whitespace THEN strip(Tail(y))
    ELSE IF y[Len(y)] \in Whitespace THEN strip(SubSeq(y, 1, Len(y) - 1))
    ELSE y

\* sep.join(xs)
RECURSIVE join(_, _)
join(sep, xs) ==
    IF xs = <<>> THEN <<>>
    ELSE IF Len(xs) = 1 THEN xs[1]
    ELSE xs[1] \o sep \o join(sep, Tail(xs))

_convert_to_greed(x) ==
    IF startswith(x, <<"{">>) /\ endswith(x, <<"}">>)
    THEN LET ys == split(SubSeq(x, 2, Len(x) - 1), ",")
         IN  join(<<" ">>, <<Decimal(Len(ys))>> \o [i \in 1..Len(ys) |-> strip(ys[i])])
    ELSE IF startswith(x, <<"\"">>) /\ endswith(x, <<"\"">>)
    THEN SubSeq(x, 2, Len(x) - 1)
    ELSE x

(***************************************************************************)
(* The document, as far as _download_data queries it                       *)
(***************************************************************************)
FieldLabels == <<"Class:", "Method:", "Parameters:", "Returns:", "Method signature:">>

FieldKey(label) ==
    CASE label = "Class:" -> "class"
      [] label = "Method:" -> "method"
      [] label = "Parameters:" -> "parameters"
      [] label = "Returns:" -> "returns"
      [] label = "Method signature:" -> "method_signature"

AllFields == {FieldLabels[i] : i \in 1..Len(FieldLabels)}

\* a <pre>: its .string is None when it has no single text child
Pre(text) == [none |-> FALSE, string |-> text]
EmptyPre == [none |-> TRUE, string |-> <<>>]

\* a sibling of the heading's row: a <tr> with its first <td> (absent, without
\* a string, or with the string `label`) and its <pre>s, or a node that is no <tr>
Row(td, label, pres) == [name |-> "tr", td |-> td, label |-> label, pres |-> pres]
TextNode == [name |-> "", td |-> "absent", label |-> <<>>, pres |-> <<>>]

Header0 == Row("text", <<"0", ")">>, <<>>)
Header1 ==
    Row("text", <<"1", ")">>,
        <<Pre(<<"3", ".", "5">>), Pre(Marker \o <<"7", ".", "0">>), Pre(<<"x">>)>>)
BodyA ==
    Row("absent", <<>>,
        <<Pre(<<"{", "5", ",", " ", "8", "}">>), Pre(<<"\"", "f", "o", "o", "\"">>),
          Pre(Marker \o <<"4", "0", ".", "0">>)>>)
BodyNoReturns ==
    Row("nostring", <<>>, <<Pre(<<"R", "e", "t", "u", "r", "n", "s", ":", "7">>)>>)
BodyEmptyPre == Row("absent", <<>>, <<EmptyPre>>)
\* <pre>"a"</pre><pre>""</pre><pre>Returns: 1</pre>
BodyB ==
    Row("nostring", <<>>,
        <<Pre(<<"\"", "a", "\"">>), Pre(<<"\"", "\"">>), Pre(Marker \o <<"1">>)>>)

Nodes == {TextNode, Header0, Header1, BodyA, BodyNoReturns, BodyEmptyPre, BodyB}

RECURSIVE SeqsUpTo(_, _)
SeqsUpTo(S, n) ==
    IF n = 0 THEN {<<>>}
    ELSE LET shorter == SeqsUpTo(S, n - 1)
         IN  shorter \cup {Append(q, x) : q \in {r \in shorter : Len(r) = n - 1}, x \in S}

Document(n, d, sec, fs, sig, ex, sibs) ==
    [problemTexts |-> n, definition |-> d, section |-> sec, fields |-> fs,
     signature |-> sig, examples |-> ex, siblings |-> sibs]

\* documents that differ in what precedes the examples
PreludeDocs ==
    { Document(n, d, sec, fs, sig, ex, <<Header0, BodyA>>) :
        n \in 0..2, d \in BOOLEAN, sec \in {"tr", "text", "none"},
        fs \in {AllFields, {}} \cup {AllFields \ {l} : l \in AllFields},
        sig \in BOOLEAN, ex \in BOOLEAN }

\* documents that differ in the rows of the Examples section
ExampleDocs ==
    { Document(1, TRUE, "tr", AllFields, TRUE, TRUE, sibs) :
        sibs \in SeqsUpTo(Nodes, MaxSiblings) }

Docs == PreludeDocs \cup ExampleDocs

NoDoc == Document(0, FALSE, "none", {}, FALSE, FALSE, <<>>)

(***************************************************************************)
(* TopcoderArenaProblem._download_data, step by step                       *)
(***************************************************************************)
NoResult == [outcome |-> "", exc |-> "", at |-> "", value |-> <<>>]
Raised(e, where) == [outcome |-> "raise", exc |-> e, at |-> where, value |-> <<>>]
Returned(v) == [outcome |-> "return", exc |-> "", at |-> "", value |-> v]

Fail(e, where) ==
    /\ pc' = "done"
    /\ result' = Raised(e, where)

\* soup.find_all('td', class_='problemText')
FindProblemText ==
    /\ pc = "start"
    /\ IF doc.problemTexts # 1
       THEN Fail("SampleParseError", "problemText")
       ELSE pc' = "definition" /\ UNCHANGED result
    /\ UNCHANGED <<doc, cursor, definition, raw_sample_cases, blocks>>
    /\ UNCHANGED dispatchVars
    /\ UNCHANGED <<callVars, pureVars>>

\* h3 = problem_text.find('h3', text='Definition')
LocateDefinition ==
    /\ pc = "definition"
    /\ IF ~doc.definition
       THEN Fail("SampleParseError", "Definition")
       ELSE pc' = "fields" /\ UNCHANGED result
    /\ UNCHANGED <<doc, cursor, definition, raw_sample_cases, blocks>>
    /\ UNCHANGED dispatchVars
    /\ UNCHANGED <<callVars, pureVars>>

\* the labels read before the loop over the five labels ends or raises
RECURSIVE FieldsRead(_, _)
FieldsRead(d, i) ==
    IF i > Len(FieldLabels) \/ d.section # "tr" \/ FieldLabels[i] \notin d.fields
    THEN {}
    ELSE {FieldKey(FieldLabels[i])} \cup FieldsRead(d, i + 1)

\* what the loop over the five labels raises: h3.parent.parent.next_sibling is
\* None or a string, or find() gives None for a label and td.parent is taken
FieldsError(d) ==
    IF d.section = "none" THEN "AttributeError"
    ELSE IF d.section = "text" THEN "TypeError"
    ELSE IF \E l \in AllFields : l \notin d.fields THEN "AttributeError"
    ELSE ""

ReadFields ==
    /\ pc = "fields"
    /\ definition' = FieldsRead(doc, 1)
    /\ IF FieldsError(doc) # ""
       THEN Fail(FieldsError(doc), "fields")
       ELSE pc' = "examples" /\ UNCHANGED result
    /\ UNCHANGED <<doc, cursor, raw_sample_cases, blocks>>
    /\ UNCHANGED dispatchVars
    /\ UNCHANGED <<callVars, pureVars>>

\* h3 = problem_text.find('h3', text='Examples'); cursor = h3.parent.parent
LocateExamples ==
    /\ pc = "examples"
    /\ IF ~doc.examples
       THEN Fail("SampleParseError", "Examples") /\ UNCHANGED cursor
       ELSE pc' = "loop" /\ cursor' = 0 /\ UNCHANGED result
    /\ UNCHANGED <<doc, definition, raw_sample_cases, blocks>>
    /\ UNCHANGED dispatchVars
    /\ UNCHANGED <<callVars, pureVars>>

\* the test of the next sibling without the comparison of its name with 'tr'
IsRow_any_node(d, i) == i <= Len(d.siblings)

\* cursor.next_sibling is a <tr>
IsRow(d, i) == i <= Len(d.siblings) /\ d.siblings[i].name = "tr"

\* the header check without the comparison with the counter
HeaderMatches_any_label(row, k) == row.td = "text"

\* cursor.find('td').string != '{})'.format(len(raw_sample_cases)), negated
HeaderMatches(row, k) == row.td = "text" /\ row.label = Decimal(k) \o <<")">>

\* for pre in cursor.find_all('pre'): ... else: raise
RECURSIVE ScanPres(_, _, _)
ScanPres(pres, i, input_items) ==
    IF i > Len(pres)
    THEN [status |-> "SampleParseError", input_items |-> input_items,
          output_item |-> <<>>, read |-> i - 1]
    ELSE IF pres[i].none
    THEN [status |-> "AttributeError", input_items |-> input_items,
          output_item |-> <<>>, read |-> i]
    ELSE IF startswith(pres[i].string, Marker)
    THEN [status |-> "break", input_items |-> input_items,
          output_item |-> SubSeq(pres[i].string, Len(Marker) + 1, Len(pres[i].string)),
          read |-> i]
    ELSE ScanPres(pres, i + 1, Append(input_items, pres[i].string))

\* one turn of `while True`
ReadExampleBlock ==
    /\ pc = "loop"
    /\ LET h == cursor + 1
           b == cursor + 2
           k == Len(raw_sample_cases)
       IN  IF ~IsRow(doc, h)
           THEN /\ cursor' = h
                /\ pc' = "convert"
                /\ UNCHANGED <<result, raw_sample_cases, blocks>>
           ELSE IF doc.siblings[h].td = "absent"
           THEN /\ cursor' = h
                /\ Fail("AttributeError", "header")
                /\ UNCHANGED <<raw_sample_cases, blocks>>
           ELSE IF ~HeaderMatches(doc.siblings[h], k)
           THEN /\ cursor' = h
                /\ Fail("SampleParseError", "header")
                /\ UNCHANGED <<raw_sample_cases, blocks>>
           ELSE IF ~IsRow(doc, b)
           THEN /\ cursor' = b
                /\ Fail("SampleParseError", "body")
                /\ UNCHANGED <<raw_sample_cases, blocks>>
           ELSE LET scan == ScanPres(doc.siblings[b].pres, 1, <<>>)
                IN  /\ cursor' = b
                    /\ IF scan.status # "break"
                       THEN /\ Fail(scan.status, "pre")
                            /\ UNCHANGED <<raw_sample_cases, blocks>>
                       ELSE /\ raw_sample_cases' =
                                Append(raw_sample_cases, <<scan.input_items, scan.output_item>>)
                            /\ blocks' = Append(blocks,
                                [header |-> h, label |-> doc.siblings[h].label,
                                 body |-> b, read |-> scan.read])
                            /\ UNCHANGED <<pc, result>>
    /\ UNCHANGED <<doc, definition>>
    /\ UNCHANGED dispatchVars
    /\ UNCHANGED <<callVars, pureVars>>

\* TestCase(...) without the '\n' added after the joined input items
TestCase_no_terminator(i, input_items, output_item) ==
    [name |-> <<"Example #">> \o Decimal(i),
     input_name |-> "input",
     input_data |->
        join(<<"\n">>, [j \in 1..Len(input_items) |-> _convert_to_greed(input_items[j])]),
     output_name |-> "output",
     output_data |-> _convert_to_greed(output_item)]

\* TestCase('Example #{}'.format(i), 'input', ..., 'output', ...)
TestCase(i, input_items, output_item) ==
    [name |-> <<"Example #">> \o Decimal(i),
     input_name |-> "input",
     input_data |->
        join(<<"\n">>, [j \in 1..Len(input_items) |-> _convert_to_greed(input_items[j])])
            \o <<"\n">>,
     output_name |-> "output",
     output_data |-> _convert_to_greed(output_item)]

sample_cases(raw) ==
    [i \in 1..Len(raw) |-> TestCase(i - 1, raw[i][1], raw[i][2])]

\* the conversion of the samples, _TopcoderArenaData(...) with its hint (re.sub
\* on the method signature), and the return of download_sample_cases
ConvertSamples ==
    /\ pc = "convert"
    /\ pc' = "done"
    /\ result' = IF ~doc.signature THEN Raised("TypeError", "hint")
                 ELSE Returned(sample_cases(raw_sample_cases))
    /\ UNCHANGED <<doc, cursor, definition, raw_sample_cases, blocks>>
    /\ UNCHANGED dispatchVars
    /\ UNCHANGED <<callVars, pureVars>>

InitDispatch ==
    /\ services = <<>>
    /\ problems = <<>>
    /\ submissions = <<>>
    /\ contests = <<>>
    /\ initialized = FALSE
    /\ registered = 0
    /\ last = NoCall

IdleExtract ==
    /\ doc = NoDoc
    /\ pc = "idle"
    /\ cursor = 0
    /\ definition = {}
    /\ raw_sample_cases = <<>>
    /\ blocks = <<>>
    /\ result = NoResult

\* no call of _download_data is suspended and none has ended
IdleCalls ==
    /\ others = <<>>
    /\ completed = {}

NoGreed == [done |-> FALSE, value |-> <<>>]

NotApplied == [outcome |-> "", value |-> None, exc |-> ""]

NoMatch ==
    [problem |-> NotApplied, service |-> NotApplied,
     got_url |-> [done |-> FALSE, value |-> BadURL],
     direct |-> NotApplied, fallback |-> NotApplied]

\* _convert_to_greed and the matchers are not called
IdlePure ==
    /\ token = <<>>
    /\ greed = NoGreed
    /\ url_arg = BadURL
    /\ match = NoMatch

Init == InitDispatch /\ IdleExtract /\ IdleCalls /\ IdlePure

Next ==
    \/ ImportTopcoder
    \/ \E name \in DOMAIN SiteHandlers : \E cls \in SiteHandlers[name] : Register(name, cls)
    \/ \E url \in DispatchURLs : CallSubmission(url)
    \/ \E url \in DispatchURLs : CallProblem(url)
    \/ \E url \in DispatchURLs : CallContest(url)
    \/ \E url \in DispatchURLs : CallService(url)

Spec == Init /\ [][Next]_vars

\* download_sample_cases on one document
InitExtract ==
    /\ InitDispatch
    /\ doc \in Docs
    /\ pc = "start"
    /\ cursor = 0
    /\ definition = {}
    /\ raw_sample_cases = <<>>
    /\ blocks = <<>>
    /\ result = NoResult
    /\ IdleCalls
    /\ IdlePure

NextExtract ==
    \/ FindProblemText
    \/ LocateDefinition
    \/ ReadFields
    \/ LocateExamples
    \/ ReadExampleBlock
    \/ ConvertSamples

SpecExtract == InitExtract /\ [][NextExtract]_vars

\* the call runs to its return or raise: a step that can be taken is taken
SpecExtractFair == SpecExtract /\ WF_vars(NextExtract)

(***************************************************************************)
(* Calls of download_sample_cases from two callers, interleaved at every   *)
(* step, and calls one after another.  The variables of _download_data     *)
(* hold the locals of the call that runs; `others` holds the locals of the *)
(* suspended call.                                                         *)
(***************************************************************************)
Locals ==
    [doc |-> doc, pc |-> pc, cursor |-> cursor, definition |-> definition,
     raw_sample_cases |-> raw_sample_cases, blocks |-> blocks, result |-> result]

NewCall(d) ==
    [doc |-> d, pc |-> "start", cursor |-> 0, definition |-> {},
     raw_sample_cases |-> <<>>, blocks |-> <<>>, result |-> NoResult]

\* the documents of the calls: two examples; one example; a second header
\* "0)"; a body row without "Returns: "; no Examples heading
ConcurrentDocs ==
    { Document(1, TRUE, "tr", AllFields, TRUE, TRUE, <<Header0, BodyA, Header1, BodyB>>),
      Document(1, TRUE, "tr", AllFields, TRUE, TRUE, <<Header0, BodyA>>),
      Document(1, TRUE, "tr", AllFields, TRUE, TRUE, <<Header0, BodyA, Header0, BodyA>>),
      Document(1, TRUE, "tr", AllFields, TRUE, TRUE, <<Header0, BodyNoReturns>>),
      Document(1, TRUE, "tr", AllFields, TRUE, FALSE, <<Header0, BodyA>>) }

\* raw_sample_cases as one list that all calls append to
own_list_shared(saved, running) == running

\* raw_sample_cases = []: a list of the call, which the resumed call finds as
\* it left it
own_list(saved, running) == saved

\* the running call is suspended and the other call goes on
Switch ==
    /\ others # <<>>
    /\ others' = <<Locals>>
    /\ doc' = others[1].doc
    /\ pc' = others[1].pc
    /\ cursor' = others[1].cursor
    /\ definition' = others[1].definition
    /\ raw_sample_cases' = own_list(others[1].raw_sample_cases, raw_sample_cases)
    /\ blocks' = others[1].blocks
    /\ result' = others[1].result
    /\ UNCHANGED completed
    /\ UNCHANGED <<dispatchVars, pureVars>>

\* the call has ended and its caller calls download_sample_cases again
CallAgain ==
    /\ pc = "done"
    /\ completed' = completed \cup {[doc |-> doc, result |-> result]}
    /\ \E d \in ConcurrentDocs :
          /\ doc' = d
          /\ pc' = "start"
          /\ cursor' = 0
          /\ definition' = {}
          /\ raw_sample_cases' = <<>>
          /\ blocks' = <<>>
          /\ result' = NoResult
    /\ UNCHANGED others
    /\ UNCHANGED <<dispatchVars, pureVars>>

InitConcurrent ==
    /\ InitDispatch
    /\ IdlePure
    /\ doc \in ConcurrentDocs
    /\ pc = "start"
    /\ cursor = 0
    /\ definition = {}
    /\ raw_sample_cases = <<>>
    /\ blocks = <<>>
    /\ result = NoResult
    /\ \E d \in ConcurrentDocs : others = <<NewCall(d)>>
    /\ completed = {}

NextConcurrent ==
    \/ NextExtract
    \/ Switch
    \/ CallAgain

SpecConcurrent == InitConcurrent /\ [][NextConcurrent]_vars

(***************************************************************************)
(* _convert_to_greed on one token                                          *)
(***************************************************************************)
\* longest token given to _convert_to_greed
MaxToken == 5

TokenChars == {"{", "}", ",", " ", "1", "\""}

Tokens == SeqsUpTo(TokenChars, MaxToken)

Convert ==
    /\ ~greed.done
    /\ greed' = [done |-> TRUE, value |-> _convert_to_greed(token)]
    /\ UNCHANGED <<token, url_arg, match>>
    /\ UNCHANGED <<dispatchVars, extractVars, callVars>>

InitConvert ==
    /\ InitDispatch
    /\ IdleExtract
    /\ IdleCalls
    /\ token \in Tokens
    /\ greed = NoGreed
    /\ url_arg = BadURL
    /\ match = NoMatch

NextConvert == Convert

SpecConvert == InitConvert /\ [][NextConvert]_vars

(***************************************************************************)
(* The Topcoder matchers on one URL, and service_from_url on it with the   *)
(* registries as the import of the topcoder module leaves them             *)
(***************************************************************************)
\* the two URL forms of a problem (the examples in from_url), for the ids given
FragmentForm(s, p, r, c, n, d, m) ==
    URL(s, "arena.topcoder.com", p, <<>>,
        PracticeFragment(format(r), format(c), format(n), format(d), format(m)))

QueryForm(s, n) ==
    URL(s, "community.topcoder.com", StatPath,
        << <<"c", "problem_statement">>, <<"pm", format(n)>> >>, EmptyStr)

ProblemIds == {0, 1, 10760, -5}
OtherIds == {1, 14230}

FragmentForms(n) ==
    { FragmentForm(s, p, r, c, n, d, m) :
        s \in {"http", "https"}, p \in {RootPath, IndexPath},
        r \in OtherIds, c \in OtherIds, d \in OtherIds, m \in OtherIds }

QueryForms(n) == { QueryForm(s, n) : s \in {"http", "https"} }

MatchURLs ==
    URLs \cup UNION {FragmentForms(n) \cup QueryForms(n) : n \in ProblemIds}

MatchProblem ==
    /\ match.problem = NotApplied
    /\ match' = [match EXCEPT !.problem = TopcoderArenaProblem_from_url(url_arg)]
    /\ UNCHANGED <<token, greed, url_arg>>
    /\ UNCHANGED <<dispatchVars, extractVars, callVars>>

MatchService ==
    /\ match.service = NotApplied
    /\ match' = [match EXCEPT !.service = TopcoderArenaService_from_url(url_arg)]
    /\ UNCHANGED <<token, greed, url_arg>>
    /\ UNCHANGED <<dispatchVars, extractVars, callVars>>

\* get_url() of the problem from_url gave
GetUrl ==
    /\ match.problem.outcome = "return"
    /\ match.problem.value # None
    /\ ~match.got_url.done
    /\ match' = [match EXCEPT !.got_url = [done |-> TRUE, value |-> get_url(match.problem.value)]]
    /\ UNCHANGED <<token, greed, url_arg>>
    /\ UNCHANGED <<dispatchVars, extractVars, callVars>>

\* service_from_url with services = [TopcoderArenaService]
ResolveDirect ==
    /\ match.direct = NotApplied
    /\ match' = [match EXCEPT !.direct =
            service_from_url(url_arg, <<"TopcoderArenaService">>, <<>>,
                             <<"TopcoderArenaProblem">>).res]
    /\ UNCHANGED <<token, greed, url_arg>>
    /\ UNCHANGED <<dispatchVars, extractVars, callVars>>

\* service_from_url with no service handler to consult: the fallback
ResolveFallback ==
    /\ match.fallback = NotApplied
    /\ match' = [match EXCEPT !.fallback =
            service_from_url(url_arg, <<>>, <<>>, <<"TopcoderArenaProblem">>).res]
    /\ UNCHANGED <<token, greed, url_arg>>
    /\ UNCHANGED <<dispatchVars, extractVars, callVars>>

InitMatch ==
    /\ InitDispatch
    /\ IdleExtract
    /\ IdleCalls
    /\ token = <<>>
    /\ greed = NoGreed
    /\ url_arg \in MatchURLs
    /\ match = NoMatch

NextMatch ==
    \/ MatchProblem
    \/ MatchService
    \/ GetUrl
    \/ ResolveDirect
    \/ ResolveFallback

SpecMatch == InitMatch /\ [][NextMatch]_vars

(***************************************************************************)
(* What the claims compare the code with                                   *)
(***************************************************************************)
Accepts(cls, url) ==
    from_url(cls, url).outcome = "return" /\ from_url(cls, url).value # None

\* the lowest index of a handler of lst that accepts url, 0 when none does
FirstAccepting(lst, url) ==
    LET hits == {i \in 1..Len(lst) : Accepts(lst[i], url)}
    IN  IF hits = {} THEN 0 ELSE CHOOSE i \in hits : \A j \in hits : i <= j

ListOf(fn) ==
    CASE fn = "submission_from_url" -> submissions
      [] fn = "problem_from_url" -> problems
      [] fn = "contest_from_url" -> contests
      [] fn = "service_from_url" -> services

ListName(fn) ==
    CASE fn = "submission_from_url" -> "submissions"
      [] fn = "problem_from_url" -> "problems"
      [] fn = "contest_from_url" -> "contests"
      [] fn = "service_from_url" -> "services"

\* a step that is a resolution call: it is no registration
ResolutionStep == registered' = registered /\ initialized' = initialized

(***************************************************************************)
(* C1: problem_from_url, submission_from_url and contest_from_url return   *)
(* the entity of the lowest-index handler of their list that accepts the   *)
(* URL, after consulting the handlers before it once each in list order    *)
(* and none after it.                                                      *)
(***************************************************************************)
C1_FirstHandlerWins ==
    [][\A fn \in {"problem_from_url", "submission_from_url", "contest_from_url"} :
          (last' # last /\ last'.fn = fn) =>
             LET m == FirstAccepting(ListOf(fn), last'.url)
             IN  m > 0 =>
                    /\ last'.outcome = "return"
                    /\ last'.value = from_url(ListOf(fn)[m], last'.url).value
                    /\ last'.consulted = [i \in 1..m |-> <<ListName(fn), i>>]]_vars

\* the first handler declined, the second accepted, and the third, which
\* accepts the URL too, was not consulted
C1_Witness ==
    /\ problems = <<"TopcoderArenaProblem", "SiteAProblem", "SiteBProblem">>
    /\ last.fn = "problem_from_url"
    /\ last.value = Entity("problem", "SiteAProblem", 1)
    /\ last.consulted = << <<"problems", 1>>, <<"problems", 2>> >>

(***************************************************************************)
(* C2: a resolution call with a URL that no registered handler of its      *)
(* class accepts (for service_from_url: no service, submission or problem  *)
(* handler) returns None and does not raise.                               *)
(***************************************************************************)
C2_NoMatchReturnsNone ==
    [][\A fn \in {"problem_from_url", "submission_from_url", "contest_from_url",
                  "service_from_url"} :
          ( /\ last' # last
            /\ last'.fn = fn
            /\ FirstAccepting(ListOf(fn), last'.url) = 0
            /\ fn = "service_from_url" =>
                  /\ FirstAccepting(submissions, last'.url) = 0
                  /\ FirstAccepting(problems, last'.url) = 0 )
          => (last'.outcome = "return" /\ last'.value = None)]_vars

(***************************************************************************)
(* C3: service_from_url returns the service of the first accepting service *)
(* handler; else the owning service of the submission the first accepting  *)
(* submission handler gives; else the owning service of the problem the    *)
(* first accepting problem handler gives; and it returns None exactly when *)
(* no service, submission or problem handler accepts the URL.              *)
(***************************************************************************)
C3_ServiceResolution ==
    [][(last' # last /\ last'.fn = "service_from_url") =>
          LET url == last'.url
              s == FirstAccepting(services, url)
              u == FirstAccepting(submissions, url)
              p == FirstAccepting(problems, url)
          IN  /\ s > 0 =>
                    (last'.outcome = "return" /\ last'.value = from_url(services[s], url).value)
              /\ (s = 0 /\ u > 0) =>
                    /\ last'.outcome = "return"
                    /\ last'.value = get_service(from_url(submissions[u], url).value)
              /\ (s = 0 /\ u = 0 /\ p > 0) =>
                    /\ last'.outcome = "return"
                    /\ last'.value = get_service(from_url(problems[p], url).value)
              /\ (last'.outcome = "return" /\ last'.value = None)
                    <=> (s = 0 /\ u = 0 /\ p = 0)]_vars

(***************************************************************************)
(* C4: no resolution call changes a registry: over every call of           *)
(* problem_from_url, submission_from_url, contest_from_url and             *)
(* service_from_url the four lists keep their handlers and their order.    *)
(***************************************************************************)
C4_ResolutionKeepsRegistry == [][ResolutionStep => registry' = registry]_vars

\* a service resolution that consulted all three registries and matched none,
\* after every registration
C4_Witness ==
    /\ initialized
    /\ registered = MaxRegistered
    /\ last.fn = "service_from_url"
    /\ last.outcome = "return"
    /\ last.value = None
    /\ Len(last.consulted) >= 3

(***************************************************************************)
(* C5: once the module initialization has registered the handlers the four *)
(* lists are read-only, and any two resolutions of the same URL consult    *)
(* the same handlers and return the same result.                           *)
(***************************************************************************)
C5_FrozenRegistry ==
    [][initialized =>
          /\ registry' = registry
          /\ (last # NoCall /\ last'.fn = last.fn /\ last'.url = last.url) =>
                /\ last'.consulted = last.consulted
                /\ last'.outcome = last.outcome
                /\ last'.value = last.value]_vars

(***************************************************************************)
(* C6: download_sample_cases never returns an empty sequence or fewer      *)
(* cases than the Examples section has example blocks (a header row and a  *)
(* body row each): it returns one TestCase for every block or raises.      *)
(***************************************************************************)
ExamplesPresent(d) ==
    Cardinality({i \in 1..Len(d.siblings) : d.siblings[i].name = "tr"}) \div 2

C6_AllOrNothing ==
    (pc = "done" /\ result.outcome = "return") =>
        /\ Len(result.value) > 0
        /\ Len(result.value) = ExamplesPresent(doc)

(***************************************************************************)
(* C7: a header row whose label is not the decimal counter followed by ")" *)
(* makes the extraction raise SampleParseError at that row, with no later  *)
(* row read and no case added; so a returned sequence of n cases was built *)
(* from the headers "0)", ..., "n-1)" met in that order.                   *)
(***************************************************************************)
OrdinalLabel(k) == Decimal(k) \o <<")">>

C8_MissingLabelFails ==
    ( /\ pc = "done"
      /\ doc.problemTexts = 1
      /\ doc.definition
      /\ doc.section = "tr"
      /\ doc.fields # AllFields )
    => (result.outcome = "raise" /\ result.exc = "SampleParseError")

(***************************************************************************)
(* C9: a document without the Definition heading and a document without    *)
(* the Examples heading both fail with SampleParseError, and a document    *)
(* without both fails on the Definition heading.                           *)
(***************************************************************************)
C9_MissingHeadings ==
    pc = "done" =>
        /\ ~doc.definition => (result.outcome = "raise" /\ result.exc = "SampleParseError")
        /\ ~doc.examples => (result.outcome = "raise" /\ result.exc = "SampleParseError")
        /\ (doc.problemTexts = 1 /\ ~doc.definition /\ ~doc.examples) =>
              result.at = "Definition"

(***************************************************************************)
(* C10: of a body row the inputs are the texts of the <pre>s before the    *)
(* first one whose text starts with "Returns: ", the output is the rest of *)
(* that text, and no later <pre> is read; a body row without such a <pre>  *)
(* makes the extraction fail with SampleParseError.                        *)
(***************************************************************************)
HasMarker(pre) == ~pre.none /\ startswith(pre.string, Marker)

C10_BodyRow ==
    [][( /\ pc = "loop"
         /\ IsRow(doc, cursor + 1)
         /\ doc.siblings[cursor + 1].td = "text"
         /\ doc.siblings[cursor + 1].label = OrdinalLabel(Len(blocks))
         /\ IsRow(doc, cursor + 2) )
       => LET pres == doc.siblings[cursor + 2].pres
              marked == {i \in 1..Len(pres) : HasMarker(pres[i])}
              f == CHOOSE i \in marked : \A j \in marked : i <= j
          IN  IF marked = {}
              THEN /\ pc' = "done"
                   /\ result'.outcome = "raise"
                   /\ result'.exc = "SampleParseError"
              ELSE /\ pc' = "loop"
                   /\ raw_sample_cases' = Append(raw_sample_cases,
                         << [i \in 1..(f - 1) |-> pres[i].string],
                            SubSeq(pres[f].string, Len(Marker) + 1, Len(pres[f].string)) >>)
                   /\ blocks'[Len(blocks')].read = f]_vars

(***************************************************************************)
(* C11: a returned sequence has one record for each accepted example; the  *)
(* i-th (from 0) is named "Example #i", is labelled "input" and "output",  *)
(* has as input the normalized input tokens of the example, one per line,  *)
(* and ends in exactly one line terminator, and has as output the          *)
(* normalized output token with nothing added.                             *)
(***************************************************************************)
\* the normalized input tokens of an accepted block, from the document
InputTokens(b) ==
    [j \in 1..(b.read - 1) |-> _convert_to_greed(doc.siblings[b.body].pres[j].string)]

\* the normalized output token of an accepted block, from the document
OutputToken(b) ==
    LET text == doc.siblings[b.body].pres[b.read].string
    IN  _convert_to_greed(SubSeq(text, Len(Marker) + 1, Len(text)))

\* the records are those of the accepted blocks, with one line terminator
\* after every token
RecordsOfBlocks ==
    /\ Len(result.value) = Len(blocks)
    /\ \A i \in 1..Len(blocks) :
          /\ result.value[i].name = <<"Example #">> \o Decimal(i - 1)
          /\ result.value[i].input_name = "input"
          /\ result.value[i].output_name = "output"
          /\ result.value[i].input_data = join(<<"\n">>, InputTokens(blocks[i])) \o <<"\n">>
          /\ result.value[i].output_data = OutputToken(blocks[i])

EndsInOneTerminator(t) ==
    /\ Len(t) >= 1
    /\ t[Len(t)] = "\n"
    /\ Len(t) >= 2 => t[Len(t) - 1] # "\n"

C11_TestCaseRecords ==
    (pc = "done" /\ result.outcome = "return") =>
        /\ RecordsOfBlocks
        /\ \A i \in 1..Len(result.value) : EndsInOneTerminator(result.value[i].input_data)

\* C11 as amended: the input is the normalized tokens separated by single line
\* terminators with one line terminator added after the last token, whatever
\* the text of that token is
C11_TerminatorAdded ==
    (pc = "done" /\ result.outcome = "return") => RecordsOfBlocks

\* two examples returned, the second with the inputs "a" and "": its input is
\* the lines `a` and the empty line
C11_Witness ==
    /\ pc = "done"
    /\ result.outcome = "return"
    /\ Len(result.value) = 2
    /\ result.value[1].input_data = <<"2", " ", "5", " ", "8", "\n", "f", "o", "o", "\n">>
    /\ result.value[1].output_data = <<"4", "0", ".", "0">>
    /\ result.value[2].name = <<"Example #", "1">>
    /\ result.value[2].input_data = <<"a", "\n", "\n">>
    /\ result.value[2].output_data = <<"1">>

(***************************************************************************)
(* C12: of a brace-delimited comma-separated list literal the              *)
(* normalization is the number of its elements followed by its elements,   *)
(* each trimmed of whitespace, separated by single spaces; the number is   *)
(* 0 for the list without elements, "{}".                                  *)
(***************************************************************************)
IsListLiteral(t) == Len(t) >= 2 /\ t[1] = "{" /\ t[Len(t)] = "}"

\* the elements of a list literal: none when nothing but whitespace stands
\* between the braces
Elements(t) ==
    LET inner == SubSeq(t, 2, Len(t) - 1)
        parts == split(inner, ",")
    IN  IF strip(inner) = <<>> THEN <<>>
        ELSE [i \in 1..Len(parts) |-> strip(parts[i])]

C12_ListCount ==
    (greed.done /\ IsListLiteral(token)) =>
        greed.value = join(<<" ">>, <<Decimal(Len(Elements(token)))>> \o Elements(token))

(***************************************************************************)
(* C13: of a token that is no list literal the normalization is the text   *)
(* between the quotes when the token is a string literal (it starts and    *)
(* ends with a double quote), and is the token itself otherwise.           *)
(***************************************************************************)
IsStringLiteral(t) == Len(t) >= 2 /\ t[1] = "\"" /\ t[Len(t)] = "\""

C13_StringOrBare ==
    (greed.done /\ ~IsListLiteral(token)) =>
        greed.value = IF IsStringLiteral(token) THEN SubSeq(token, 2, Len(token) - 1) ELSE token

(***************************************************************************)
(* C14: for every problem id n and all round, component, division and room *)
(* ids, TopcoderArenaProblem.from_url accepts the fragment form            *)
(* (arena.topcoder.com, path / or /index.html) and the query form          *)
(* (community.topcoder.com/stat) under http and https, gives a problem     *)
(* with problem_id n for both, and get_url() of it is the one canonical    *)
(* URL of n.                                                               *)
(***************************************************************************)
C14_FormsAgree ==
    \A n \in ProblemIds :
        url_arg \in FragmentForms(n) \cup QueryForms(n) =>
            /\ match.problem # NotApplied =>
                  match.problem = Return(Entity("problem", "TopcoderArenaProblem", n))
            /\ match.got_url.done => match.got_url.value = QueryForm("https", n)

\* a fragment-form URL under http whose ids all differ from the problem id,
\* matched, with get_url() taken
C14_Witness ==
    /\ url_arg = FragmentForm("http", RootPath, 14230, 1, 10760, 1, 14230)
    /\ match.problem.outcome = "return"
    /\ match.problem.value.id = 10760
    /\ match.got_url.done
    /\ match.got_url.value = QueryForm("https", 10760)

(***************************************************************************)
(* C15: for every URL string, well-formed or not, the two Topcoder         *)
(* from_url matchers return an entity or None and never raise; on a        *)
(* Topcoder host they return None when a numeric fragment segment or the   *)
(* pm value is no integer, when the fragment has not the expected shape,   *)
(* or when the scheme is not empty, http or https.                         *)
(***************************************************************************)
FragmentShape(u) ==
    LET dirs == normpath(u.fragment)
    IN  /\ Len(dirs) = 8
        /\ dirs[1] = "" /\ dirs[2] = "u" /\ dirs[3] = "practiceCode"
        /\ \A i \in 4..8 : dirs[i] \in DOMAIN IntLiterals

PmIsInteger(u) ==
    \E i \in 1..Len(u.query) : u.query[i][1] = "pm" /\ u.query[i][2] \in DOMAIN IntLiterals

C15_MatchersNeverRaise ==
    /\ match.problem.outcome \in {"", "return"}
    /\ match.service.outcome \in {"", "return"}
    /\ ( /\ match.problem.outcome = "return"
          /\ \/ url_arg.scheme \notin {"", "http", "https"}
             \/ url_arg.netloc = "arena.topcoder.com" /\ ~FragmentShape(url_arg)
             \/ url_arg.netloc = "community.topcoder.com" /\ ~PmIsInteger(url_arg) )
        => match.problem.value = None
    /\ ( /\ match.service.outcome = "return"
          /\ url_arg.scheme \notin {"", "http", "https"} )
        => match.service.value = None

(***************************************************************************)
(* C19: every URL TopcoderArenaProblem.from_url accepts is accepted by     *)
(* TopcoderArenaService.from_url too, with the service (canonical URL and  *)
(* name) that get_service() of the problem gives; so service_from_url      *)
(* returns that service both with the service handler consulted and        *)
(* through the problem fallback.                                           *)
(***************************************************************************)
SameService(a, b) == get_url(a) = get_url(b) /\ get_name(a) = get_name(b)

C19_DirectAndFallbackAgree ==
    (match.problem.outcome = "return" /\ match.problem.value # None) =>
        LET owner == get_service(match.problem.value)
        IN  /\ match.service # NotApplied =>
                  /\ match.service.outcome = "return"
                  /\ match.service.value # None
                  /\ SameService(match.service.value, owner)
            /\ match.direct # NotApplied =>
                  /\ match.direct.outcome = "return"
                  /\ match.direct.value # None
                  /\ SameService(match.direct.value, owner)
            /\ match.fallback # NotApplied =>
                  /\ match.fallback.outcome = "return"
                  /\ match.fallback.value # None
                  /\ SameService(match.fallback.value, owner)

\* a query-form URL resolved by both matchers and by service_from_url with
\* and without the service handler
C19_Witness ==
    /\ url_arg = QueryForm("https", 10760)
    /\ match.problem = Return(Entity("problem", "TopcoderArenaProblem", 10760))
    /\ match.service = Return(Entity("service", "TopcoderArenaService", 0))
    /\ match.direct = match.service
    /\ match.fallback = match.service

(***************************************************************************)
(* C17: a resolution call that returns an entity gives a "recognized"      *)
(* report to the logger and no "unknown" report, and a call that returns   *)
(* None gives an "unknown" report; also for service_from_url when it       *)
(* resolves through the submission or problem fallback.                    *)
(***************************************************************************)
Reports(log, verdict) == {i \in 1..Len(log) : log[i][3] = verdict}

C17_OutcomeReported ==
    [][(last' # last /\ last'.outcome = "return") =>
          IF last'.value # None
          THEN /\ Reports(last'.log, "recognized") # {}
               /\ Reports(last'.log, "unknown") = {}
          ELSE Reports(last'.log, "unknown") # {}]_vars

(***************************************************************************)
(* C18: the loop over the example blocks ends on every document, and takes *)
(* two sibling rows for every accepted example, the header and the body.   *)
(* It ends normally only at a header position, where the next sibling is   *)
(* missing or is no row; a missing or non-row sibling at the body          *)
(* position, after an accepted header, raises SampleParseError.            *)
(***************************************************************************)
RowAt(i) == i <= Len(doc.siblings) /\ doc.siblings[i].name = "tr"

HeaderAccepted(i) ==
    /\ RowAt(i)
    /\ doc.siblings[i].td = "text"
    /\ doc.siblings[i].label = OrdinalLabel(Len(raw_sample_cases))

C18_LoopTerminates ==
    /\ [](pc = "loop" => cursor = 2 * Len(raw_sample_cases))
    /\ [][pc = "loop" =>
            /\ pc' = "convert" =>
                  /\ ~RowAt(cursor + 1)
                  /\ cursor' = cursor + 1
                  /\ raw_sample_cases' = raw_sample_cases
            /\ raw_sample_cases' # raw_sample_cases =>
                  /\ Len(raw_sample_cases') = Len(raw_sample_cases) + 1
                  /\ HeaderAccepted(cursor + 1)
                  /\ RowAt(cursor + 2)
                  /\ cursor' = cursor + 2
            /\ (HeaderAccepted(cursor + 1) /\ ~RowAt(cursor + 2)) =>
                  /\ pc' = "done"
                  /\ result' = Raised("SampleParseError", "body")
                  /\ raw_sample_cases' = raw_sample_cases]_vars
    /\ <>(pc = "done")

\* after one accepted example the header "1)" is followed by a node that is
\* no row: the call raised there
C18_Witness ==
    /\ pc = "done"
    /\ result = Raised("SampleParseError", "body")
    /\ Len(raw_sample_cases) = 1
    /\ cursor = 4
    /\ Len(doc.siblings) >= 4
    /\ doc.siblings[3].label = <<"1", ")">>
    /\ doc.siblings[4].name = ""

(***************************************************************************)
(* C16: calls of download_sample_cases are independent: all calls on the   *)
(* same document end with the same result (the same TestCase sequence in   *)
(* the same order, or the same failure), whether they run one after        *)
(* another or interleaved, on the same or on different documents.          *)
(***************************************************************************)
\* the calls that have ended, each with its document and its result
Ended ==
    completed
    \cup (IF pc = "done" THEN {[doc |-> doc, result |-> result]} ELSE {})
    \cup {[doc |-> others[i].doc, result |-> others[i].result] :
            i \in {j \in 1..Len(others) : others[j].pc = "done"}}

C16_CallsIndependent ==
    \A a \in Ended : \A b \in Ended : a.doc = b.doc => a.result = b.result

\* two interleaved calls on the document with two examples have both
\* returned, after earlier calls on it
C16_Witness ==
    /\ pc = "done"
    /\ result.outcome = "return"
    /\ Len(result.value) = 2
    /\ others # <<>>
    /\ others[1].pc = "done"
    /\ others[1].doc = doc
    /\ others[1].blocks = blocks
    /\ [doc |-> doc, result |-> result] \in completed

====
